---------------------------- MODULE Spec2Model ----------------------------
(***************************************************************************)
(* Model of the yew-and-bulma component core: the Section component        *)
(* (yew-and-bulma/src/layout/section.rs), the ClassBuilder it assembles    *)
(* its class attribute with, and the Notification component used by        *)
(* examples/elements_notification.                                         *)
(*                                                                         *)
(* Strings are sequences of one-character strings, so that separators,     *)
(* joins and tokens are computed, not assumed.                             *)
(***************************************************************************)
EXTENDS Naturals, Sequences, FiniteSets, TLC

VARIABLES
    component,  \* which component the host is rendering: "none", "Section", "Notification"
    props,      \* the Component Configuration of the current render
    html,       \* the root element emitted by the current render, or None
    pc,         \* position in the render cycle: "idle", "invoked", "rendered"
    builder,    \* the ClassBuilder instance most recently used
    built,      \* what the last build() of the builder returned, or None
    nBuilds,    \* consecutive build() calls since the last other builder call
    first,      \* the first render of a sequence of renders: its props, its
                \* output, and whether a render of other props followed it
    nRenders    \* renders done in a sequence of renders

vars == <<component, props, html, pc, builder, built, nBuilds, first, nRenders>>

\* Option<T>: None, or Some(x). Options of enumerated values and of handlers
\* are the value itself or None; options of structured values are Nothing
\* or Some(x).
None == "None"

Nothing == <<>>

Some(x) == <<x>>

Unwrap(o) == o[1]

-----------------------------------------------------------------------------
(* Bounds *)

MaxChildren == 2      \* children per component
MaxFragments == 3     \* fragments given to one ClassBuilder
MaxFragLen == 2       \* characters per fragment
MaxBuilds == 2        \* consecutive build() calls
MaxRenders == 3       \* renders in one sequence of renders

-----------------------------------------------------------------------------
(* Strings *)

SEP == " "

EMPTY == <<>>

\* The strings over alphabet A of length at most n.
RECURSIVE StringsUpTo(_, _)
StringsUpTo(A, n) ==
    IF n = 0 THEN {EMPTY}
    ELSE LET shorter == StringsUpTo(A, n - 1)
         IN shorter \cup {Append(s, c) : s \in shorter, c \in A}

\* The sequences over S of length at most n.
RECURSIVE SeqsUpTo(_, _)
SeqsUpTo(S, n) ==
    IF n = 0 THEN {<<>>}
    ELSE LET shorter == SeqsUpTo(S, n - 1)
         IN shorter \cup {Append(s, x) : s \in shorter, x \in S}

-----------------------------------------------------------------------------
(* ClassBuilder (crate::utils::class): an ordered sequence of fragments,     *)
(* joined by build() with the empty ones left out.                           *)

ClassBuilder_default == [classes |-> <<>>]

with_custom_class(self, class) == [self EXCEPT !.classes = Append(@, class)]

NonEmptyFragments(classes) == SelectSeq(classes, LAMBDA c : c # EMPTY)

\* The fragments joined with a single separator between neighbours.
Join(classes) ==
    LET RECURSIVE go(_)
        go(i) == IF i > Len(classes) THEN EMPTY
                 ELSE IF i = Len(classes) THEN classes[i]
                 ELSE classes[i] \o <<SEP>> \o go(i + 1)
    IN go(1)

\* A build() that empties the builder it is called on.
build_Draining(self) ==
    [self |-> ClassBuilder_default, ret |-> Join(NonEmptyFragments(self.classes))]

\* A build() that joins every fragment, the empty ones too.
build_KeepEmpty(self) ==
    [self |-> self, ret |-> Join(self.classes)]

\* A build() that keeps only the first occurrence of each fragment.
build_Dedup(self) ==
    LET ne == NonEmptyFragments(self.classes)
        keep == {i \in 1..Len(ne) : \A j \in 1..(i - 1) : ne[j] # ne[i]}
        RECURSIVE pick(_)
        pick(i) == IF i > Len(ne) THEN <<>>
                   ELSE (IF i \in keep THEN <<ne[i]>> ELSE <<>>) \o pick(i + 1)
    IN [self |-> self, ret |-> Join(pick(1))]

\* build(): the builder after the call (self) and the string returned (ret).
build(self) ==
    [self |-> self, ret |-> Join(NonEmptyFragments(self.classes))]

-----------------------------------------------------------------------------
(* Style enumerations and their CSS suffix tokens *)

IS_PREFIX == <<"i", "s">>

Size == {"Small", "Normal", "Medium", "Large"}

SizeDisplay(size) ==
    CASE size = "Small" -> <<"s", "m", "a", "l", "l">>
      [] size = "Normal" -> <<"n", "o", "r", "m", "a", "l">>
      [] size = "Medium" -> <<"m", "e", "d", "i", "u", "m">>
      [] size = "Large" -> <<"l", "a", "r", "g", "e">>

Color == {"Primary", "Link", "Info", "Success", "Warning", "Danger"}

ColorDisplay(color) ==
    CASE color = "Primary" -> <<"p", "r", "i", "m", "a", "r", "y">>
      [] color = "Link" -> <<"l", "i", "n", "k">>
      [] color = "Info" -> <<"i", "n", "f", "o">>
      [] color = "Success" -> <<"s", "u", "c", "c", "e", "s", "s">>
      [] color = "Warning" -> <<"w", "a", "r", "n", "i", "n", "g">>
      [] color = "Danger" -> <<"d", "a", "n", "g", "e", "r">>

SECTION == <<"s", "e", "c", "t", "i", "o", "n">>

NOTIFICATION == <<"n", "o", "t", "i", "f", "i", "c", "a", "t", "i", "o", "n">>

LIGHT == <<"l", "i", "g", "h", "t">>

\* format!("{prefix}-{variant}")
Modifier(prefix, variant) == prefix \o <<"-">> \o variant

-----------------------------------------------------------------------------
(* Common Property Bundle (#[base_component_properties]): id, class and one  *)
(* optional callback per supported DOM event.                                *)

EventNames ==
    {"onclick", "onwheel", "onscroll", "onmousedown", "onmousemove",
     "onmouseout", "onmouseover", "onmouseup", "ondrag", "ondragend",
     "ondragenter", "ondragleave", "ondragover", "ondragstart", "ondrop",
     "oncopy", "oncut", "onpaste", "onkeydown", "onkeypress", "onkeyup",
     "onblur", "onchange", "oncontextmenu", "onfocus", "oninput",
     "oninvalid", "onreset", "onselect", "onsubmit", "onabort",
     "oncanplay", "oncanplaythrough", "oncuechange", "ondurationchange",
     "onemptied", "onended", "onerror", "onloadeddata",
     "onloadedmetadata", "onloadstart", "onpause", "onplay", "onplaying",
     "onprogress", "onratechange", "onseeked", "onseeking", "onstalled",
     "onsuspend", "ontimeupdate", "onvolumechange", "onwaiting"}

Handlers == {"h1", "h2"}

Ids == {"main", "side"}

\* Custom classes a caller supplies: none, one class, two classes.
CustomClasses == {EMPTY, <<"x">>, <<"x", " ", "y">>}

ChildNodes == {"c1", "c2"}

Opt(S) == S \cup {None}

OptSome(S) == {Nothing} \cup {Some(x) : x \in S}

\* Handler assignments: event e carries h, every other event carries rest.
HandlerConfigs ==
    {[x \in EventNames |-> IF x = e THEN h ELSE rest] :
        e \in EventNames, h \in Opt(Handlers), rest \in Opt(Handlers)}

\* pub struct SectionProperties: the bundle, size and children.
SectionProperties(hs, i, c, sz, ch) ==
    hs @@ [id |-> i, class |-> c, size |-> sz, children |-> ch]

-----------------------------------------------------------------------------
(* Section *)

\* The size fragment with every size honoured.
SizeFragment_AllSizes(size) ==
    IF size = None THEN EMPTY ELSE Modifier(IS_PREFIX, SizeDisplay(size))

\* The size fragment with an unset size rendered as the normal size.
SizeFragment_DefaultNormal(size) ==
    IF size = None THEN Modifier(IS_PREFIX, SizeDisplay("Normal"))
    ELSE IF size # "Medium" /\ size # "Large" THEN EMPTY
    ELSE Modifier(IS_PREFIX, SizeDisplay(size))

\* let size = props.size.as_ref().map(..).unwrap_or("".to_owned())
SizeFragment(size) ==
    IF size = None THEN EMPTY
    ELSE IF size # "Medium" /\ size # "Large" THEN EMPTY
    ELSE Modifier(IS_PREFIX, SizeDisplay(size))

\* props.class.as_ref().map(|c| c.to_string()).unwrap_or("".to_owned())
CustomClassFragment(class) == IF class = Nothing THEN EMPTY ELSE Unwrap(class)

\* The builder with the custom class given before the size.
SectionBuilder_CustomFirst(p, start) ==
    with_custom_class(
        with_custom_class(
            with_custom_class(start, SECTION),
            CustomClassFragment(p.class)),
        SizeFragment(p.size))

\* The builder of section(): base class, size, custom class, from `start`.
SectionBuilder(p, start) ==
    with_custom_class(
        with_custom_class(
            with_custom_class(start, SECTION),
            SizeFragment(p.size)),
        CustomClassFragment(p.class))

\* A section() that goes on with the builder the last render left.
SectionStart_Stale == builder

\* ClassBuilder::default() of section()
SectionStart == ClassBuilder_default

\* The root <div> of section(): every attribute and the children.
SectionRoot(p, class) ==
    [tag |-> "div", id |-> p.id, class |-> class,
     onclick |-> p.onclick, onwheel |-> p.onwheel,
     onscroll |-> p.onscroll, onmousedown |-> p.onmousedown,
     onmousemove |-> p.onmousemove, onmouseout |-> p.onmouseout,
     onmouseover |-> p.onmouseover, onmouseup |-> p.onmouseup,
     ondrag |-> p.ondrag, ondragend |-> p.ondragend,
     ondragenter |-> p.ondragenter, ondragleave |-> p.ondragleave,
     ondragover |-> p.ondragover, ondragstart |-> p.ondragstart,
     ondrop |-> p.ondrop, oncopy |-> p.oncopy, oncut |-> p.oncut,
     onpaste |-> p.onpaste, onkeydown |-> p.onkeydown,
     onkeypress |-> p.onkeypress, onkeyup |-> p.onkeyup,
     onblur |-> p.onblur, onchange |-> p.onchange,
     oncontextmenu |-> p.oncontextmenu, onfocus |-> p.onfocus,
     oninput |-> p.oninput, oninvalid |-> p.oninvalid,
     onreset |-> p.onreset, onselect |-> p.onselect,
     onsubmit |-> p.onsubmit, onabort |-> p.onabort,
     oncanplay |-> p.oncanplay, oncanplaythrough |-> p.oncanplaythrough,
     oncuechange |-> p.oncuechange,
     ondurationchange |-> p.ondurationchange, onemptied |-> p.onemptied,
     onended |-> p.onended, onerror |-> p.onerror,
     onloadeddata |-> p.onloadeddata,
     onloadedmetadata |-> p.onloadedmetadata,
     onloadstart |-> p.onloadstart, onpause |-> p.onpause,
     onplay |-> p.onplay, onplaying |-> p.onplaying,
     onprogress |-> p.onprogress, onratechange |-> p.onratechange,
     onseeked |-> p.onseeked, onseeking |-> p.onseeking,
     onstalled |-> p.onstalled, onsuspend |-> p.onsuspend,
     ontimeupdate |-> p.ontimeupdate, onvolumechange |-> p.onvolumechange,
     onwaiting |-> p.onwaiting,
     children |-> p.children]

Reverse(s) == [i \in 1..Len(s) |-> s[Len(s) + 1 - i]]

\* A section() that binds onwheel to the onclick handler.
section_WheelFromClick(p) ==
    [SectionRoot(p, build(SectionBuilder(p, SectionStart)).ret)
        EXCEPT !.onwheel = p.onclick]

\* A section() that emits its children last to first.
section_ReversedChildren(p) ==
    [SectionRoot(p, build(SectionBuilder(p, SectionStart)).ret)
        EXCEPT !.children = Reverse(p.children)]

\* pub fn section(props: &SectionProperties) -> Html
section(p) == SectionRoot(p, build(SectionBuilder(p, SectionStart)).ret)

-----------------------------------------------------------------------------
(* Notification (elements::notification) *)

\* The bundle, color, light and children.
NotificationProperties(hs, i, c, co, li, ch) ==
    hs @@ [id |-> i, class |-> c, color |-> co, light |-> li, children |-> ch]

LightFragment(light) == IF light THEN Modifier(IS_PREFIX, LIGHT) ELSE EMPTY

ColorFragment(color) ==
    IF color = None THEN EMPTY ELSE Modifier(IS_PREFIX, ColorDisplay(color))

\* The builder with the color modifier given before the light modifier.
NotificationBuilder_ColorFirst(p) ==
    with_custom_class(
        with_custom_class(
            with_custom_class(
                with_custom_class(ClassBuilder_default, NOTIFICATION),
                ColorFragment(p.color)),
            LightFragment(p.light)),
        CustomClassFragment(p.class))

\* Base class, light modifier, color modifier, custom class.
NotificationBuilder(p) ==
    with_custom_class(
        with_custom_class(
            with_custom_class(
                with_custom_class(ClassBuilder_default, NOTIFICATION),
                LightFragment(p.light)),
            ColorFragment(p.color)),
        CustomClassFragment(p.class))

notification(p) == SectionRoot(p, build(NotificationBuilder(p)).ret)

-----------------------------------------------------------------------------
(* The render cycle: the host invokes a component with a configuration,     *)
(* the component renders its root element, the host takes it.               *)

Init ==
    /\ component = "none"
    /\ props = Nothing
    /\ html = Nothing
    /\ pc = "idle"
    /\ builder = ClassBuilder_default
    /\ built = Nothing
    /\ nBuilds = 0
    /\ first = Nothing
    /\ nRenders = 0

Invoke(c, p) ==
    /\ component' = c
    /\ props' = Some(p)
    /\ pc' = "invoked"
    /\ UNCHANGED <<html, builder, built, nBuilds, first, nRenders>>

InvokeSection ==
    /\ pc = "idle"
    /\ \E hs \in HandlerConfigs, i \in Opt(Ids), c \in OptSome(CustomClasses),
          sz \in Opt(Size), ch \in SeqsUpTo(ChildNodes, MaxChildren) :
           Invoke("Section", SectionProperties(hs, i, c, sz, ch))

InvokeNotification ==
    /\ pc = "idle"
    /\ \E hs \in HandlerConfigs, i \in Opt(Ids), c \in OptSome(CustomClasses),
          co \in Opt(Color), li \in BOOLEAN,
          ch \in SeqsUpTo(ChildNodes, MaxChildren) :
           Invoke("Notification", NotificationProperties(hs, i, c, co, li, ch))

Rendered(root, b) ==
    /\ html' = Some(root)
    /\ builder' = b
    /\ pc' = "rendered"
    /\ first' = IF first = Nothing
                THEN Some([props |-> Unwrap(props), html |-> root,
                           others |-> FALSE])
                ELSE Some([Unwrap(first) EXCEPT
                             !.others = @ \/ Unwrap(props) # Unwrap(first).props])
    /\ nRenders' = nRenders + 1
    /\ UNCHANGED <<component, props, built, nBuilds>>

RenderSection ==
    /\ pc = "invoked"
    /\ component = "Section"
    /\ Rendered(section(Unwrap(props)),
                build(SectionBuilder(Unwrap(props), SectionStart)).self)

RenderNotification ==
    /\ pc = "invoked"
    /\ component = "Notification"
    /\ Rendered(notification(Unwrap(props)),
                build(NotificationBuilder(Unwrap(props))).self)

\* The configuration and the builder of a render are dropped with it.
Discard ==
    /\ pc = "rendered"
    /\ component' = "none"
    /\ props' = Nothing
    /\ html' = Nothing
    /\ pc' = "idle"
    /\ builder' = ClassBuilder_default
    /\ first' = Nothing
    /\ nRenders' = 0
    /\ UNCHANGED <<built, nBuilds>>

Next ==
    \/ InvokeSection
    \/ InvokeNotification
    \/ RenderSection
    \/ RenderNotification
    \/ Discard

Spec == Init /\ [][Next]_vars

-----------------------------------------------------------------------------
(* Sequences of Section renders *)

\* The handler assignments used in sequences of renders.
FewHandlerConfigs ==
    {[x \in EventNames |-> IF x \in on THEN "h1" ELSE None] :
        on \in {{}, {"onclick"}, EventNames}}

InvokeAgain ==
    /\ pc = "idle"
    /\ nRenders < MaxRenders
    /\ \E hs \in FewHandlerConfigs, i \in {None, "main"},
          c \in {Nothing, Some(<<"x">>)}, sz \in {None, "Small", "Large"},
          ch \in {<<>>, <<"c1">>} :
           Invoke("Section", SectionProperties(hs, i, c, sz, ch))

\* The host takes the root element; the next render cycle may start.
NextCycle ==
    /\ pc = "rendered"
    /\ component' = "none"
    /\ props' = Nothing
    /\ html' = Nothing
    /\ pc' = "idle"
    /\ UNCHANGED <<builder, built, nBuilds, first, nRenders>>

NextRenders ==
    \/ InvokeAgain
    \/ RenderSection
    \/ NextCycle

SpecRenders == Init /\ [][NextRenders]_vars

-----------------------------------------------------------------------------
(* Uses of a ClassBuilder *)

Fragments == StringsUpTo({"a", SEP}, MaxFragLen)

NewBuilder ==
    /\ builder' = ClassBuilder_default
    /\ built' = Nothing
    /\ nBuilds' = 0
    /\ UNCHANGED <<component, props, html, pc, first, nRenders>>

WithCustomClass ==
    /\ Len(builder.classes) < MaxFragments
    /\ \E f \in Fragments : builder' = with_custom_class(builder, f)
    /\ built' = Nothing
    /\ nBuilds' = 0
    /\ UNCHANGED <<component, props, html, pc, first, nRenders>>

Build ==
    /\ nBuilds < MaxBuilds
    /\ LET r == build(builder)
       IN /\ builder' = r.self
          /\ built' = Some(r.ret)
    /\ nBuilds' = nBuilds + 1
    /\ UNCHANGED <<component, props, html, pc, first, nRenders>>

NextBuilder ==
    \/ NewBuilder
    \/ WithCustomClass
    \/ Build

SpecBuilder == Init /\ [][NextBuilder]_vars

-----------------------------------------------------------------------------
(* Properties *)

P == Unwrap(props)

H == Unwrap(html)

RenderedAs(c) == pc = "rendered" /\ component = c

\* "section", then the custom class when one is given and it is not empty.
WithCustom(base, class) ==
    IF class = Nothing \/ Unwrap(class) = EMPTY THEN base
    ELSE base \o <<SEP>> \o Unwrap(class)

\* C1: a Section whose size is a Size other than Medium or Large renders the
\* class "section" (followed by the custom class when one is given), and the
\* render does produce its root element.
C1_InapplicableSizeDiscarded ==
    (RenderedAs("Section") /\ P.size \in Size \ {"Medium", "Large"})
        => /\ html # Nothing
           /\ H.class = WithCustom(<<"s", "e", "c", "t", "i", "o", "n">>, P.class)

C1_Witness ==
    /\ RenderedAs("Section")
    /\ P.size = "Small"
    /\ P.class = Some(<<"x">>)
    /\ H.class = <<"s", "e", "c", "t", "i", "o", "n", " ", "x">>

\* C2: a Section whose size is Medium or Large renders "section", then
\* "is-medium" or "is-large", then the custom class (if any), in that order.
C2_SizeThenCustomClass ==
    (RenderedAs("Section") /\ P.size \in {"Medium", "Large"})
        => H.class =
             WithCustom(IF P.size = "Medium"
                        THEN <<"s", "e", "c", "t", "i", "o", "n", " ", "i", "s", "-", "m", "e", "d", "i", "u", "m">>
                        ELSE <<"s", "e", "c", "t", "i", "o", "n", " ", "i", "s", "-", "l", "a", "r", "g", "e">>,
                        P.class)

C2_Witness ==
    /\ RenderedAs("Section")
    /\ P.size = "Large"
    /\ P.class = Some(<<"x", " ", "y">>)
    /\ H.class = <<"s", "e", "c", "t", "i", "o", "n", " ", "i", "s", "-", "l", "a", "r", "g", "e", " ", "x", " ", "y">>

\* C6: the root element of a rendered Section carries the configured id, and
\* for every event name the configured handler itself, or none when the
\* configuration has none.
C6_BundleForwarded ==
    RenderedAs("Section")
        => /\ H.id = P.id
           /\ \A e \in EventNames : H[e] = P[e]

C6_Witness ==
    /\ RenderedAs("Section")
    /\ P.id = "main"
    /\ P.onclick = "h1"
    /\ P.onwheel = "h2"
    /\ P.onwaiting = "h2"
    /\ H.onclick = "h1"
    /\ H.onwheel = "h2"

\* C7: the root element of a rendered Section holds exactly the children
\* supplied, each once and in the order supplied.
C7_ChildrenInOrder ==
    RenderedAs("Section")
        => /\ Len(H.children) = Len(P.children)
           /\ \A i \in 1..Len(P.children) : H.children[i] = P.children[i]

C7_Witness ==
    /\ RenderedAs("Section")
    /\ P.children = <<"c1", "c2">>
    /\ H.children = <<"c1", "c2">>

\* No size or color, light off, no custom class, no id, no handler.
NoOptionalFieldSet ==
    /\ P.class = Nothing
    /\ P.id = None
    /\ \A e \in EventNames : P[e] = None
    /\ component = "Section" => P.size = None
    /\ component = "Notification" => P.color = None /\ ~P.light

\* C8: a component rendered with no optional field set has just its base
\* class as class string ("section", "notification") and no event handler
\* on its root element.
C8_BareComponent ==
    (pc = "rendered" /\ NoOptionalFieldSet)
        => /\ H.class = (IF component = "Section"
                         THEN <<"s", "e", "c", "t", "i", "o", "n">>
                         ELSE <<"n", "o", "t", "i", "f", "i", "c", "a", "t", "i", "o", "n">>)
           /\ \A e \in EventNames : H[e] = None

C8_Witness ==
    /\ RenderedAs("Section")
    /\ NoOptionalFieldSet
    /\ P.children = <<"c1">>
    /\ H.class = <<"s", "e", "c", "t", "i", "o", "n">>
    /\ H.onclick = None

\* C9: a Notification with color Primary, light on and no custom class
\* renders the class "notification is-light is-primary".
C9_LightPrimaryNotification ==
    (RenderedAs("Notification") /\ P.color = "Primary" /\ P.light
                                /\ P.class = Nothing)
        => H.class = <<"n", "o", "t", "i", "f", "i", "c", "a", "t", "i", "o", "n", " ", "i", "s", "-", "l", "i", "g", "h", "t", " ", "i", "s", "-", "p", "r", "i", "m", "a", "r", "y">>

C9_Witness ==
    /\ RenderedAs("Notification")
    /\ P.color = "Primary"
    /\ P.light
    /\ P.class = Nothing
    /\ H.class = <<"n", "o", "t", "i", "f", "i", "c", "a", "t", "i", "o", "n", " ", "i", "s", "-", "l", "i", "g", "h", "t", " ", "i", "s", "-", "p", "r", "i", "m", "a", "r", "y">>

CleanlySeparated(s) ==
    /\ Len(s) > 0 => s[1] # SEP /\ s[Len(s)] # SEP
    /\ \A i \in 1..(Len(s) - 1) : ~(s[i] = SEP /\ s[i + 1] = SEP)

\* The number of maximal runs of characters other than the separator.
CountTokens(s) ==
    Cardinality({i \in 1..Len(s) : s[i] # SEP /\ (i = 1 \/ s[i - 1] = SEP)})

CountNonEmpty(classes) ==
    Cardinality({i \in 1..Len(classes) : Len(classes[i]) > 0})

HasSeparator(s) == \E i \in 1..Len(s) : s[i] = SEP

=============================================================================
